---- MODULE Spec2Model ----
(***************************************************************************)
(* Model of rrbutani/wordle-thing (src/src/main.rs): the crawl loop of     *)
(* main that turns replies into (Guess, answer word) observations, solve,  *)
(* and main's reporting of solve's result.                                 *)
(*                                                                         *)
(* Characters are one-character strings.  The four feedback glyphs are     *)
(* written "black", "white", "yellow" and "green"; "\n" is the line feed.  *)
(* A word and a text are sequences of characters.                          *)
(***************************************************************************)
EXTENDS Integers, Sequences, FiniteSets, TLC

VARIABLES
    valid_words,   \* WORDLE_DATA.valid_words
    answers,       \* WORDLE_DATA.answers, answers[d + 1] is day d
    excludes,      \* args.excludes as a set
    children,      \* the replies the stream has still to yield
    guesses,       \* main's `guesses` vector
    played,        \* history: the word the author really typed, per guess
    text,          \* the text of the last reply of the root author
    first_guess,   \* the Option<Guess> parsed from `text`
    constraints,   \* solve's `constraints` after its first loop
    printed,       \* the positions solve printed as impossible
    regex,         \* solve's `regex`, a sequence of 5 character classes
    result,        \* solve's return value
    outcome,       \* what main reports
    pc

vars == <<valid_words, answers, excludes, children, guesses, played, text,
          first_guess, constraints, printed, regex, result, outcome, pc>>

-----------------------------------------------------------------------------
(* Bounds of the model                                                     *)

MaxGuesses == 2

MaxLines == 2

MaxValidWords == 9

(* Program constants                                                       *)

WordLen == 5

AmbiguousMax == 12

-----------------------------------------------------------------------------
(* Cells, glyphs, options                                                  *)

Cells == {"Match", "Partial", "Nop"}

Positions == 1..WordLen

None == [tag |-> "None", val |-> <<>>]

Some(v) == [tag |-> "Some", val |-> v]

\* ('a'..='z'), in the order of char
Alphabet ==
    <<"a", "b", "c", "d", "e", "f", "g", "h", "i", "j", "k", "l", "m",
      "n", "o", "p", "q", "r", "s", "t", "u", "v", "w", "x", "y", "z">>

AlphabetSet == {Alphabet[n] : n \in DOMAIN Alphabet}

\* impl TryFrom<char> for Cell: Err(()) is None
CellFromChar(c) ==
    CASE c \in {"black", "white"} -> Some("Nop")
      [] c = "yellow" -> Some("Partial")
      [] c = "green" -> Some("Match")
      [] OTHER -> None

\* impl Display for Cell
CellToChar(cell) ==
    CASE cell = "Nop" -> "black"
      [] cell = "Partial" -> "yellow"
      [] cell = "Match" -> "green"

\* GuessDisplayWrapper: the cells written one after the other
Display(guess) == [i \in DOMAIN guess |-> CellToChar(guess[i])]

-----------------------------------------------------------------------------
(* Parsing a reply                                                         *)

RECURSIVE Lines(_)
\* str::lines: split at line feeds, no empty line after a final line feed
\* (the texts drawn hold no carriage return)
Lines(t) ==
    IF t = <<>> THEN <<>>
    ELSE LET nl == {k \in DOMAIN t : t[k] = "\n"}
         IN IF nl = {} THEN <<t>>
            ELSE LET k == CHOOSE k \in nl : \A m \in nl : k <= m
                 IN <<SubSeq(t, 1, k - 1)>> \o Lines(SubSeq(t, k + 1, Len(t)))

RECURSIVE FillCells(_, _, _)
\* the `for (idx, c) in l.chars().enumerate()` loop over `res`
FillCells(l, idx, res) ==
    IF idx > Len(l) THEN Some(res)
    ELSE LET c == CellFromChar(l[idx])
         IN IF c.tag = "Some"
            THEN FillCells(l, idx + 1, [res EXCEPT ![idx] = c.val])
            ELSE None

\* the closure given to filter_map
ParseLine(l) ==
    IF Len(l) # WordLen THEN None
    ELSE FillCells(l, 1, [i \in Positions |-> "Nop"])

RECURSIVE LastParsed(_)
LastParsed(ls) ==
    IF ls = <<>> THEN None
    ELSE LET g == ParseLine(ls[Len(ls)])
         IN IF g.tag = "Some" THEN g ELSE LastParsed(SubSeq(ls, 1, Len(ls) - 1))

RECURSIVE FirstParsed(_)
\* filter_map(..).next(): the first line the closure accepts
FirstParsed(ls) ==
    IF ls = <<>> THEN None
    ELSE LET g == ParseLine(Head(ls))
         IN IF g.tag = "Some" THEN g ELSE FirstParsed(Tail(ls))

-----------------------------------------------------------------------------
(* solve                                                                   *)

\* enumerate(): the indices of a 5-array, in order
Enumerate == [i \in Positions |-> i]

Collect(chars, kept) == {chars[kept[n]] : n \in DOMAIN kept}

ConstraintForOwnKept(guess, chars, i) ==
    CASE guess[i] = "Match" -> [kind |-> "IsOneOf", set |-> {chars[i]}]
      [] guess[i] = "Partial" ->
            [kind |-> "IsOneOf",
             set |-> Collect(chars,
                 SelectSeq(Enumerate, LAMBDA idx : guess[idx] # "Match"))]
      [] guess[i] = "Nop" ->
            [kind |-> "IsNoneOf",
             set |-> Collect(chars,
                 SelectSeq(Enumerate, LAMBDA idx : guess[idx] # "Match"))]

ConstraintForNopOthers(guess, chars, i) ==
    CASE guess[i] = "Match" -> [kind |-> "IsOneOf", set |-> {chars[i]}]
      [] guess[i] = "Partial" ->
            [kind |-> "IsOneOf",
             set |-> Collect(chars,
                 SelectSeq(Enumerate,
                           LAMBDA idx : guess[idx] # "Match" /\ idx # i))]
      [] guess[i] = "Nop" ->
            [kind |-> "IsNoneOf",
             set |-> Collect(chars,
                 SelectSeq(Enumerate,
                           LAMBDA idx : guess[idx] # "Match" /\ idx # i))]

\* the `match cell` of solve's first loop
ConstraintFor(guess, chars, i) ==
    CASE guess[i] = "Match" -> [kind |-> "IsOneOf", set |-> {chars[i]}]
      [] guess[i] = "Partial" ->
            [kind |-> "IsOneOf",
             set |-> Collect(chars,
                 SelectSeq(Enumerate,
                           LAMBDA idx : guess[idx] # "Match" /\ idx # i))]
      [] guess[i] = "Nop" ->
            [kind |-> "IsNoneOf",
             set |-> Collect(chars,
                 SelectSeq(Enumerate, LAMBDA idx : guess[idx] # "Match"))]

RECURSIVE Derive(_, _)
\* solve's first loop: one push per position per observation
Derive(gs, acc) ==
    IF gs = <<>> THEN acc
    ELSE Derive(Tail(gs),
                [i \in Positions |->
                    Append(acc[i],
                           ConstraintFor(Head(gs).guess, Head(gs).word, i))])

ApplyConstraintReplace(state_space, c) ==
    IF c.kind = "IsOneOf" THEN c.set ELSE state_space \ c.set

ApplyConstraintSymmetric(state_space, c) ==
    IF c.kind = "IsOneOf" THEN state_space \cap c.set
    ELSE (state_space \ c.set) \cup (c.set \ state_space)

\* the closure of the fold
ApplyConstraint(state_space, c) ==
    IF c.kind = "IsOneOf" THEN state_space \cap c.set
    ELSE state_space \ c.set

RECURSIVE Fold(_, _)
Fold(cs, state_space) ==
    IF cs = <<>> THEN state_space
    ELSE Fold(Tail(cs), ApplyConstraint(state_space, Head(cs)))

\* the resolved set of each position
Resolve(cons) == [i \in Positions |-> Fold(cons[i], AlphabetSet)]

PrintedPositionsZeroBased(allowed) ==
    {idx : idx \in {idx \in 0..(WordLen - 1) : allowed[idx + 1] = {}}}

\* the positions of the ":-( no possible values for letter {idx + 1}" lines
PrintedPositions(allowed) ==
    {idx + 1 : idx \in {idx \in 0..(WordLen - 1) : allowed[idx + 1] = {}}}

\* one "[...]" class: the set collected into a vector and sorted
ClassOf(set) == SelectSeq(Alphabet, LAMBDA c : c \in set)

BuildRegex(allowed) == [i \in Positions |-> ClassOf(allowed[i])]

IsMatchUnanchored(re, w) ==
    /\ Len(w) >= Len(re)
    /\ \A i \in 1..(Len(re) - 1) : \E n \in DOMAIN re[i] : re[i][n] = w[i]

\* Regex::is_match of "^" + the classes + "$"
IsMatch(re, w) ==
    /\ Len(w) = Len(re)
    /\ \A i \in DOMAIN re : \E n \in DOMAIN re[i] : re[i][n] = w[i]

DictionaryValidOnly(vw, ans) == vw

\* valid_words.iter().chain(answers.iter())
Dictionary(vw, ans) == vw \o ans

Solve(gs, vw, ans) ==
    LET cons == Derive(gs, [i \in Positions |-> <<>>])
        allowed == Resolve(cons)
        shown == PrintedPositions(allowed)
        re == BuildRegex(allowed)
        possible_guesses ==
            SelectSeq(Dictionary(vw, ans), LAMBDA w : IsMatch(re, w))
    IN [constraints |-> cons,
        printed |-> shown,
        regex |-> re,
        result |-> IF \E i \in Positions : allowed[i] = {} THEN None
                   ELSE IF Len(possible_guesses) = 0 THEN None
                   ELSE Some(possible_guesses)]

ReportStrict(res) ==
    IF res.tag = "Some"
    THEN IF Len(res.val) = 1
         THEN [kind |-> "Unique", words |-> <<res.val[1]>>, count |-> 0]
         ELSE IF Len(res.val) < AmbiguousMax
         THEN [kind |-> "Ambiguous", words |-> res.val, count |-> 0]
         ELSE [kind |-> "TooMany", words |-> <<>>, count |-> Len(res.val)]
    ELSE [kind |-> "Impossible", words |-> <<>>, count |-> 0]

\* main's use of solve's result: what it prints, or exit(2)
Report(res) ==
    IF res.tag = "Some"
    THEN IF Len(res.val) = 1
         THEN [kind |-> "Unique", words |-> <<res.val[1]>>, count |-> 0]
         ELSE IF Len(res.val) <= AmbiguousMax
         THEN [kind |-> "Ambiguous", words |-> res.val, count |-> 0]
         ELSE [kind |-> "TooMany", words |-> <<>>, count |-> Len(res.val)]
    ELSE [kind |-> "Impossible", words |-> <<>>, count |-> 0]

-----------------------------------------------------------------------------
(* The environment: the dictionary, the game, the replies                  *)

\* the head of the valid word list:
\* olive geese fluff ovine opine ozone oxide elite fuzzy lingo abbey
BaseWords ==
    << <<"o", "l", "i", "v", "e">>, <<"g", "e", "e", "s", "e">>,
       <<"f", "l", "u", "f", "f">>, <<"o", "v", "i", "n", "e">>,
       <<"o", "p", "i", "n", "e">>, <<"o", "z", "o", "n", "e">>,
       <<"o", "x", "i", "d", "e">>, <<"e", "l", "i", "t", "e">>,
       <<"f", "u", "z", "z", "y">>, <<"l", "i", "n", "g", "o">>,
       <<"a", "b", "b", "e", "y">> >>

\* the answers of days 0..3: cigar other foggy eerie
AnswerWords ==
    << <<"c", "i", "g", "a", "r">>, <<"o", "t", "h", "e", "r">>,
       <<"f", "o", "g", "g", "y">>, <<"e", "e", "r", "i", "e">> >>

\* the first words an author may type: olive geese fluff
GuessWords == {BaseWords[n] : n \in 1..3}

Days == 0..(Len(AnswerWords) - 1)

\* the sizes of valid_words the model draws
ValidWordCounts == {k \in 1..MaxValidWords : k >= MaxValidWords - 2}

\* The feedback the game gives for the typed word g against the answer a:
\* green where the letters agree; among the other cells, left to right, yellow
\* while the answer still has an unmatched occurrence of the letter to give,
\* else black (a surplus occurrence is black).
Feedback(g, a) ==
    [i \in Positions |->
        IF g[i] = a[i] THEN "Match"
        ELSE LET avail == Cardinality({j \in Positions :
                                          a[j] = g[i] /\ g[j] # a[j]})
                 used == Cardinality({j \in 1..(i - 1) :
                                          g[j] = g[i] /\ g[j] # a[j]})
             IN IF used < avail THEN "Partial" ELSE "Nop"]

RootUserId == "root"

HeaderLine == <<"W", "o", "r", "d", "l", "e">>

RECURSIVE Join(_)
\* lines joined by line feeds
Join(ls) ==
    IF ls = <<>> THEN <<>>
    ELSE IF Len(ls) = 1 THEN ls[1]
    ELSE ls[1] \o <<"\n">> \o Join(Tail(ls))

Tweet(author, t, day, typed) ==
    [author_id |-> author, text |-> t, day |-> day, typed |-> typed]

BoundedSeq(S, n) == UNION {[1..k -> S] : k \in 0..n}

\* replies of an author who plays: a header line, then the first row of the grid
PlayedTweets ==
    {Tweet(RootUserId,
           Join(<<HeaderLine, Display(Feedback(g, AnswerWords[d + 1]))>>),
           d, g) : g \in GuessWords, d \in Days}

\* a reply of somebody else, and a reply of the author without a grid
OtherTweets ==
    {Tweet("other", Display([i \in Positions |-> "Match"]), 1, <<>>),
     Tweet(RootUserId, HeaderLine, 1, <<>>)}

\* replies showing any grid row at all
PatternTweets ==
    {Tweet(RootUserId, Display(p), d, <<>>) :
        p \in [Positions -> Cells], d \in Days}

Glyphs == {"black", "white", "yellow", "green"}

\* rows of 5 with one cell that differs, some rows of 4 and of 6, an empty line
LineInputs ==
    {[i \in Positions |-> IF i = p THEN s ELSE f] :
        f \in {"black", "green"}, s \in Glyphs \cup {"x"}, p \in {1, WordLen}}
    \cup {[i \in 1..n |-> f] :
        n \in {WordLen - 1, WordLen + 1}, f \in {"yellow", "x"}}
    \cup {<<>>}

FreeTextTweets ==
    {Tweet(a, Join(ls), 1, <<>>) :
        a \in {RootUserId, "other"}, ls \in BoundedSeq(LineInputs, MaxLines)}

-----------------------------------------------------------------------------
(* The program                                                             *)

InitWith(streams, counts, excl) ==
    /\ \E k \in counts : valid_words = SubSeq(BaseWords, 1, k)
    /\ answers = AnswerWords
    /\ excludes = excl
    /\ children \in streams
    /\ guesses = <<>>
    /\ played = <<>>
    /\ text = <<>>
    /\ first_guess = None
    /\ constraints = [i \in Positions |-> <<>>]
    /\ printed = {}
    /\ regex = <<>>
    /\ result = None
    /\ outcome = [kind |-> "Pending", words |-> <<>>, count |-> 0]
    /\ pc = "crawl"

\* one turn of `while let Some(t) = children.next().await`.  t.day is the day
\* the reply resolves to, from its "Wordle <day>" header or from its date;
\* replies that make the loop fail (an Err item, a day past the answers) are
\* not drawn.
ProcessTweet ==
    /\ pc = "crawl"
    /\ children # <<>>
    /\ children' = Tail(children)
    /\ LET t == Head(children)
           fg == FirstParsed(Lines(t.text))
       IN IF t.author_id # RootUserId
          THEN UNCHANGED <<guesses, played, text, first_guess>>
          ELSE /\ text' = t.text
               /\ first_guess' = fg
               /\ IF fg.tag = "None" \/ t.day \in excludes
                  THEN UNCHANGED <<guesses, played>>
                  ELSE /\ guesses' = Append(guesses,
                              [guess |-> fg.val, word |-> answers[t.day + 1]])
                       /\ played' = Append(played, t.typed)
    /\ UNCHANGED <<valid_words, answers, excludes, constraints, printed,
                   regex, result, outcome, pc>>

\* the stream has ended: solve(&*guesses) and the report
EndOfStream ==
    /\ pc = "crawl"
    /\ children = <<>>
    /\ LET s == Solve(guesses, valid_words, answers)
       IN /\ constraints' = s.constraints
          /\ printed' = s.printed
          /\ regex' = s.regex
          /\ result' = s.result
          /\ outcome' = Report(s.result)
    /\ pc' = "done"
    /\ UNCHANGED <<valid_words, answers, excludes, children, guesses, played,
                   text, first_guess>>

Next == ProcessTweet \/ EndOfStream

\* an author who plays, day 0 excluded as by default
Init == InitWith(BoundedSeq(PlayedTweets \cup OtherTweets, MaxGuesses),
                 ValidWordCounts, {0})

Spec == Init /\ [][Next]_vars

\* one reply showing any grid row, no day excluded
InitDerive == InitWith({<<t>> : t \in PatternTweets}, {MaxValidWords}, {})

SpecDerive == InitDerive /\ [][Next]_vars

\* one reply of free text
InitParse == InitWith({<<t>> : t \in FreeTextTweets}, {MaxValidWords}, {})

SpecParse == InitParse /\ [][Next]_vars

-----------------------------------------------------------------------------
(* Reference definitions the claims are stated with                        *)

Range(f) == {f[x] : x \in DOMAIN f}

NonMatch(g) == {j \in Positions : g[j] # "Match"}

\* the constraint of position i, as sets of the answer's letters
RefConstraint(g, w, i) ==
    IF g[i] = "Match" THEN [kind |-> "IsOneOf", set |-> {w[i]}]
    ELSE IF g[i] = "Partial"
    THEN [kind |-> "IsOneOf", set |-> {w[j] : j \in NonMatch(g) \ {i}}]
    ELSE [kind |-> "IsNoneOf", set |-> {w[j] : j \in NonMatch(g)}]

\* the alphabet, within every allow-set and outside every forbid-set
RefAllowed(cons, i) ==
    {c \in AlphabetSet :
        \A n \in DOMAIN cons[i] :
            IF cons[i][n].kind = "IsOneOf" THEN c \in cons[i][n].set
            ELSE c \notin cons[i][n].set}

Satisfies(c, con) ==
    IF con.kind = "IsOneOf" THEN c \in con.set ELSE c \notin con.set

RefMember(cons, w) ==
    /\ Len(w) = WordLen
    /\ \A i \in Positions : w[i] \in RefAllowed(cons, i)

Candidates(res) == IF res.tag = "Some" THEN res.val ELSE <<>>

RECURSIVE IsSubList(_, _)
\* s is t with some entries left out
IsSubList(s, t) ==
    IF s = <<>> THEN TRUE
    ELSE IF t = <<>> THEN FALSE
    ELSE IF Head(s) = Head(t) THEN IsSubList(Tail(s), Tail(t))
    ELSE IsSubList(s, Tail(t))

Reorderings(gs) ==
    {[k \in DOMAIN gs |-> gs[p[k]]] :
        p \in {q \in [DOMAIN gs -> DOMAIN gs] :
                  \A a, b \in DOMAIN gs : a # b => q[a] # q[b]}}

RefCell(c) ==
    IF c \in {"black", "white"} THEN "Nop"
    ELSE IF c = "yellow" THEN "Partial" ELSE "Match"

IsGuessLine(l) == Len(l) = WordLen /\ \A n \in DOMAIN l : l[n] \in Glyphs

DictionarySize == Len(valid_words) + Len(answers)

-----------------------------------------------------------------------------
(* Claims                                                                  *)

\* C1: for every observation and every position i, solve appends exactly one
\* constraint to position i's list, and it is the reference constraint: Match
\* allows {answer[i]}, Partial allows the answer's letters at the other
\* positions that are not Match, Nop forbids the answer's letters at every
\* position that is not Match, position i included.
C1_OneConstraintPerPosition ==
    pc = "done" =>
        \A i \in Positions :
            /\ Len(constraints[i]) = Len(guesses)
            /\ \A k \in DOMAIN guesses :
                  constraints[i][k]
                      = RefConstraint(guesses[k].guess, guesses[k].word, i)

C1_Witness ==
    /\ pc = "done"
    /\ Len(guesses) = 1
    /\ Range(guesses[1].guess) = Cells
    /\ \A i \in Positions : Len(constraints[i]) = 1

\* C2: when the pattern of an observation is the feedback the game gives for
\* the typed word against the answer, every letter of the typed word satisfies
\* the constraint solve derives for its position; hence a typed word of the
\* dictionary is among the candidates solve returns for its own observations.
C2_FeedbackSound ==
    pc = "done" =>
        /\ \A k \in DOMAIN guesses :
              (/\ played[k] # <<>>
               /\ guesses[k].guess = Feedback(played[k], guesses[k].word))
              => \A i \in Positions :
                    Satisfies(played[k][i], constraints[i][k])
        /\ \A g \in Range(Dictionary(valid_words, answers)) :
              (/\ guesses # <<>>
               /\ \A k \in DOMAIN guesses :
                     /\ played[k] = g
                     /\ guesses[k].guess = Feedback(g, guesses[k].word))
              => g \in Range(Candidates(result))

\* C3: solve returns the same outcome for every reordering of the
\* observations, each position's resolved set being the alphabet within all
\* of its allow-sets and outside all of its forbid-sets.
C3_OrderIndependent ==
    pc = "done" =>
        /\ \A gs \in Reorderings(guesses) :
              LET s == Solve(gs, valid_words, answers)
              IN /\ s.result = result
                 /\ s.printed = printed
                 /\ s.regex = regex
        /\ \A i \in Positions :
              Resolve(constraints)[i] = RefAllowed(constraints, i)

C3_Witness ==
    /\ pc = "done"
    /\ Len(guesses) = MaxGuesses
    /\ guesses[1] # guesses[2]
    /\ \E i \in Positions :
          constraints[i][1].kind # constraints[i][2].kind
    /\ result.tag = "Some"

C5_FilterByMembership ==
    pc = "done" =>
        /\ (\A i \in Positions : RefAllowed(constraints, i) # {}) =>
              LET kept == SelectSeq(valid_words \o answers,
                                    LAMBDA w : RefMember(constraints, w))
              IN result = IF kept = <<>> THEN None ELSE Some(kept)
        /\ \A w \in Range(BaseWords) \cup Range(AnswerWords)
                    \cup {SubSeq(BaseWords[1], 1, WordLen - 1),
                          BaseWords[1] \o <<"s">>} :
              IsMatch(regex, w) <=> RefMember(constraints, w)

C5_Witness ==
    /\ pc = "done"
    /\ guesses # <<>>
    /\ result.tag = "Some"
    /\ Len(result.val) > 1
    /\ Len(result.val) < DictionarySize
    /\ \E n \in DOMAIN result.val : result.val[n] \in Range(answers)

\* C6: solve prints the 1-indexed number of exactly the positions whose
\* resolved set is empty, and returns None when there is one.
C6_ContradictionReported ==
    pc = "done" =>
        /\ printed = {i \in Positions : RefAllowed(constraints, i) = {}}
        /\ printed # {} => (result = None /\ outcome.kind = "Impossible")

C6_Witness ==
    /\ pc = "done"
    /\ Len(guesses) = 2
    /\ \E i \in printed :
          /\ constraints[i][1].kind = "IsOneOf"
          /\ constraints[i][2].kind = "IsOneOf"
          /\ Cardinality(constraints[i][1].set) = 1
          /\ Cardinality(constraints[i][2].set) = 1
          /\ constraints[i][1].set # constraints[i][2].set

\* C7 as stated: with no observation the outcome is TooMany(N), N the size of
\* valid_words plus answers, every class being the whole alphabet and the
\* candidates the whole dictionary.
C7_EmptyIsTooMany ==
    (pc = "done" /\ guesses = <<>>) =>
        /\ outcome = [kind |-> "TooMany", words |-> <<>>,
                      count |-> DictionarySize]
        /\ \A i \in Positions : regex[i] = Alphabet
        /\ result = Some(valid_words \o answers)

\* C7 as amended: with no observation solve returns the whole dictionary,
\* every class being the whole alphabet, and never None; the outcome is
\* TooMany(N) when N is at least 13 and Ambiguous with the N words when N is
\* 2 to 12.
C7_EmptyPassThrough ==
    (pc = "done" /\ guesses = <<>>) =>
        /\ \A i \in Positions : regex[i] = Alphabet
        /\ result = Some(valid_words \o answers)
        /\ outcome.kind # "Impossible"
        /\ DictionarySize >= 13 =>
              outcome = [kind |-> "TooMany", words |-> <<>>,
                         count |-> DictionarySize]
        /\ (DictionarySize >= 2 /\ DictionarySize <= 12) =>
              outcome = [kind |-> "Ambiguous",
                         words |-> valid_words \o answers, count |-> 0]

C7_Witness ==
    /\ pc = "done"
    /\ guesses = <<>>
    /\ outcome.kind = "TooMany"
    /\ outcome.count = DictionarySize

\* C8: one candidate is reported Unique, 2 to 12 Ambiguous with the whole
\* list, 13 or more TooMany with the count only, None Impossible; solve never
\* returns an empty list.
C8_ReportingPolicy ==
    pc = "done" =>
        LET n == Len(Candidates(result))
        IN /\ result.tag = "Some" => n >= 1
           /\ outcome.kind \in {"Unique", "Ambiguous", "TooMany", "Impossible"}
           /\ outcome.kind = "Impossible" <=> result = None
           /\ outcome.kind = "Unique" <=> n = 1
           /\ outcome.kind = "Ambiguous" <=> (n >= 2 /\ n <= 12)
           /\ outcome.kind = "TooMany" <=> n >= 13
           /\ outcome.kind = "Unique" => outcome.words = result.val
           /\ outcome.kind = "Ambiguous" => outcome.words = result.val
           /\ outcome.kind = "TooMany" =>
                 (outcome.count = n /\ outcome.words = <<>>)

C8_Witness ==
    /\ pc = "done"
    /\ result.tag = "Some"
    /\ Len(result.val) = 12
    /\ outcome.kind = "Ambiguous"

\* C9 as stated: every constraint solve creates carries a non-empty set.
C9_NeverEmpty ==
    pc = "done" =>
        \A i \in Positions : \A k \in DOMAIN constraints[i] :
            constraints[i][k].set # {}

\* C9 as amended: a constraint solve creates carries an empty set exactly
\* when its cell is Partial and the other four cells are all Match.
C9_EmptyOnlyLonePartial ==
    pc = "done" =>
        \A i \in Positions : \A k \in DOMAIN constraints[i] :
            constraints[i][k].set = {}
            <=> (/\ guesses[k].guess[i] = "Partial"
                 /\ \A j \in Positions \ {i} : guesses[k].guess[j] = "Match")

C9_Witness ==
    /\ pc = "done"
    /\ Len(guesses) = 1
    /\ \E i \in Positions :
          /\ guesses[1].guess[i] = "Partial"
          /\ \A j \in Positions \ {i} : guesses[1].guess[j] = "Match"
          /\ constraints[i][1] = [kind |-> "IsOneOf", set |-> {}]
          /\ printed = {i}

\* C10: the guess of a reply is its first line of exactly 5 glyphs, black and
\* white read as Nop, yellow as Partial, green as Match; other lines are
\* skipped, and a reply without such a line gives no observation.
C10_FirstGridLine ==
    LET ls == Lines(text)
        ok == {k \in DOMAIN ls : IsGuessLine(ls[k])}
    IN /\ IF ok = {} THEN first_guess = None
          ELSE LET k == CHOOSE k \in ok : \A m \in ok : k <= m
               IN first_guess = Some([i \in Positions |-> RefCell(ls[k][i])])
       /\ first_guess = None => guesses = <<>>
       /\ (children = <<>> /\ first_guess # None) =>
             (Len(guesses) = 1 /\ guesses[1].guess = first_guess.val)

C10_Witness ==
    /\ children = <<>>
    /\ Len(Lines(text)) = 2
    /\ ~IsGuessLine(Lines(text)[1])
    /\ Len(Lines(text)[1]) = WordLen
    /\ IsGuessLine(Lines(text)[2])
    /\ "white" \in Range(Lines(text)[2])
    /\ Len(guesses) = 1
    /\ guesses[1].guess[WordLen] = "Nop"

====
